---- MODULE Spec2Model ----
(***************************************************************************)
(* Model of the commit-graph layout core of dark_pig_git:                  *)
(*   - LaneManager (src/lane.rs), the free-list lane allocator with trim   *)
(*   - LaneManager (src/entities/lane.rs), the simple reclaim-only variant *)
(*   - EdgeManager, Garph::render and the path builders of                 *)
(*     src/entities/edge.rs, garph.rs and bezier.rs                        *)
(*   - ColorManager (src/color.rs)                                         *)
(*   - HistoryOidManager (src/history_oid.rs)                              *)
(* A git Oid is modelled as a small positive integer; Option::None is 0.   *)
(* Lane indices are 0-based as in the Rust code; TLA+ sequences are        *)
(* 1-based, so slot L of the table is lanes[L + 1].                        *)
(***************************************************************************)
EXTENDS Integers, Sequences, FiniteSets, TLC

VARIABLES
    lanes,          \* LaneManager.lanes : Vec<Option<Oid>>
    lastCommit,     \* commit_oid of the last assign_commit call (None before any)
    retLane,        \* value returned by the last assign_commit call
    heldAtRet,      \* what slot retLane held when that call was entered
                    \* (None when it was free or beyond the end of the table)
    skipped,        \* how many parents of that call took the `continue` of line 42
    \* bookkeeping of the traversal specifications
    visited,        \* commits assign_commit has been called for
    referenced,     \* identifiers named in some parent_oids so far
    prevLanes,      \* the table as it was when the last call was entered
    lastParents,    \* parent_oids of the last call
    reservedAt,     \* pending identifier -> the lane a call wrote it into
    wasReserved,    \* reservedAt of the last call's commit when that call was
                    \* entered (NoLane if it was not pending)
    prevFreed,      \* k when the call before the last one visited a parentless
                    \* commit held in the trailing slot k, else NoLane
    passDone,       \* the traversal has ended: no further call is made
    \* the simple LaneManager of entities/lane.rs, fed the same calls
    simpleLanes,    \* its LaneManager.lanes
    simpleRet,      \* the value its last assign_commit call returned
    refCount        \* identifier -> how many visited commits named it a parent

walkVars == <<visited, referenced, prevLanes, lastParents, reservedAt, wasReserved,
              prevFreed>>

simpleVars == <<simpleLanes, simpleRet, refCount>>

laneVars == <<lanes, lastCommit, retLane, heldAtRet, skipped, walkVars, passDone,
              simpleVars>>

VARIABLES
    count_color,    \* ColorManager.count_color : usize
    map_color,      \* ColorManager.map_color : HashMap<usize, usize>
    colors,         \* ColorManager.colors : Vec<u32>
    colorOp,        \* the last ColorManager call: "none", "get" or "remove"
    colorLane,      \* its lane argument
    colorRet,       \* the value the last get_color returned
    colorPrev,      \* what get_color had returned for colorLane before the last
                    \* call, with no remove_lane_color of that lane in between
                    \* (NoColor if none)
    given,          \* lane -> last value get_color returned for it since the
                    \* lane's last remove_lane_color
    freshRets,      \* the values returned so far, while every call so far was a
                    \* get_color for a lane not asked for before
    lastFirst,      \* the color of the latest first request, a get_color for a
                    \* lane with no mapping (NoColor if none yet)
    mappedSince,    \* a get_color for a mapped lane was made since then
    firstBefore,    \* lastFirst as it was when the latest first request was made
    mappedBetween   \* mappedSince as it was when the latest first request was made

firstVars == <<lastFirst, mappedSince, firstBefore, mappedBetween>>

colorVars == <<count_color, map_color, colors, colorOp, colorLane, colorRet,
               colorPrev, given, freshRets, firstVars>>

VARIABLES
    history_oid,    \* HistoryOidManager.history_oid : HashMap<Oid, Vec<HistoryOid>>
    addLog          \* every add_history call so far, as <<oid, entry>>, in order

histVars == <<history_oid, addLog>>

VARIABLES
    edges,          \* EdgeManager.edges : Vec<Edge>
    painted,        \* after a render: per edge, the path handed to paint_path
                    \* (NoPath if none was); after a builder call: the path returned
    edgeOp,         \* the last operation: "none", "add", "garph", "manager",
                    \* "vertical" or "bezier"
    edgeArg,        \* index of the edge a builder was called for, or of the edge
                    \* whose path failed to build in EdgeManager::render (0 if none)
    panicked        \* an unwrap() of a failed build has aborted the program

edgeVars == <<edges, painted, edgeOp, edgeArg, panicked>>

vars == <<laneVars, colorVars, histVars, edgeVars>>

\* ------------------------------------------------------------------ bounds

NumCommits == 5
MaxParents == 3
MaxLanes == 2
AnyCommits == 3
AnyParents == 2
BothCommits == 4
BothParents == 2

MaxPalette == 3
NumColorLanes == 3
MaxCount == 3
FreshLanes == 5
NumHistOids == 2
NumEntries == 2
MaxAdds == 4

RevisitLen == 3

MaxCoord == 1
MaxEdges == 1

None == 0
NoLane == -1
Commits == 1..NumCommits

\* ------------------------------------------------------------ sequences

Range(s) == {s[i] : i \in 1..Len(s)}

SeqsUpTo(S, n) == UNION {[1..k -> S] : k \in 0..n}

\* Vec::contains(&Some(x))
Contains(ls, x) == \E i \in 1..Len(ls) : ls[i] = x

\* Iterator::position(|slot| slot == Some(c)), 1-based; 0 when there is none
Position(ls, c) ==
    IF Contains(ls, c)
    THEN CHOOSE i \in 1..Len(ls) : ls[i] = c /\ \A j \in 1..(i - 1) : ls[j] # c
    ELSE 0

\* ---------------------------------------------------- LaneManager (lane.rs)

\* ClaimLane without the push of line 26: a commit that is not pending is
\* given lane 0
ClaimLaneZero(ls, c) ==
    LET found == Position(ls, c)
        tbl   == IF ls = <<>> THEN <<None>> ELSE ls
        slot  == IF found # 0 THEN found ELSE 1
    IN  [tbl |-> [tbl EXCEPT ![slot] = None], slot |-> slot]

\* ClaimLane without the slot lookup of lines 19-24: it always pushes
ClaimLanePush(ls, c) ==
    [tbl |-> Append(ls, None), slot |-> Len(ls) + 1]

\* ClaimLane without line 31: the slot found is not cleared
ClaimLaneKeep(ls, c) ==
    LET found == Position(ls, c)
    IN  [tbl  |-> IF found # 0 THEN ls ELSE Append(ls, None),
         slot |-> IF found # 0 THEN found ELSE Len(ls) + 1]

\* lines 19-31: find the slot holding the commit or push a free one, then
\* clear it.  Yields the table and the 1-based slot.
ClaimLane(ls, c) ==
    LET found == Position(ls, c)
        tbl   == IF found # 0 THEN ls ELSE Append(ls, None)
        slot  == IF found # 0 THEN found ELSE Len(ls) + 1
    IN  [tbl |-> [tbl EXCEPT ![slot] = None], slot |-> slot]

\* lines 33-38: indices of the free slots, ascending
NoneLane(ls) ==
    SelectSeq([i \in 1..Len(ls) |-> i], LAMBDA i : ls[i] = None)

\* PlaceParents without the `contains` test of lines 41-43
RECURSIVE PlaceParentsNoCheck(_, _, _)
PlaceParentsNoCheck(ls, free, ps) ==
    IF ps = <<>> THEN ls
    ELSE IF free # <<>>
         THEN PlaceParentsNoCheck([ls EXCEPT ![free[Len(free)]] = Head(ps)],
                                  SubSeq(free, 1, Len(free) - 1), Tail(ps))
         ELSE PlaceParentsNoCheck(Append(ls, Head(ps)), free, Tail(ps))

\* PlaceParents that never reuses a free slot: every new parent is pushed
RECURSIVE PlaceParentsAppend(_, _, _)
PlaceParentsAppend(ls, free, ps) ==
    IF ps = <<>> THEN ls
    ELSE LET p == Head(ps) IN
         IF Contains(ls, p) THEN PlaceParentsAppend(ls, free, Tail(ps))
         ELSE PlaceParentsAppend(Append(ls, p), free, Tail(ps))

\* PlaceParents that takes the free slots from the front of none_lane
RECURSIVE PlaceParentsLowest(_, _, _)
PlaceParentsLowest(ls, free, ps) ==
    IF ps = <<>> THEN ls
    ELSE LET p == Head(ps) IN
         IF Contains(ls, p) THEN PlaceParentsLowest(ls, free, Tail(ps))
         ELSE IF free # <<>>
              THEN PlaceParentsLowest([ls EXCEPT ![free[1]] = p], Tail(free), Tail(ps))
              ELSE PlaceParentsLowest(Append(ls, p), free, Tail(ps))

\* lines 40-49: every parent that is not yet in the table takes the free
\* slot popped from the end of none_lane, or a pushed slot when none is left
RECURSIVE PlaceParents(_, _, _)
PlaceParents(ls, free, ps) ==
    IF ps = <<>> THEN ls
    ELSE LET p == Head(ps) IN
         IF Contains(ls, p) THEN PlaceParents(ls, free, Tail(ps))
         ELSE IF free # <<>>
              THEN PlaceParents([ls EXCEPT ![free[Len(free)]] = p],
                                SubSeq(free, 1, Len(free) - 1), Tail(ps))
              ELSE PlaceParents(Append(ls, p), free, Tail(ps))

\* Trim without the loop of lines 51-53
TrimNothing(ls) == ls

\* Trim that pops one slot only (`if` for `while`)
TrimOnce(ls) ==
    IF ls # <<>> /\ ls[Len(ls)] = None THEN SubSeq(ls, 1, Len(ls) - 1) ELSE ls

\* Trim that removes every free slot, so that later slots move down
TrimCompact(ls) == SelectSeq(ls, LAMBDA x : x # None)

\* lines 51-53: pop trailing free slots
RECURSIVE Trim(_)
Trim(ls) ==
    IF ls # <<>> /\ ls[Len(ls)] = None
    THEN Trim(SubSeq(ls, 1, Len(ls) - 1))
    ELSE ls

\* lines 18-56: the whole call; lane is the 0-based return value
\* (skipped counts the parents that took the `continue` of line 42: those
\* of ps that were not written into a slot)
AssignCommit(ls, c, ps) ==
    LET cl     == ClaimLane(ls, c)
        placed == PlaceParents(cl.tbl, NoneLane(cl.tbl), ps)
    IN  [lanes   |-> Trim(placed),
         lane    |-> cl.slot - 1,
         skipped |-> Len(ps) - (Cardinality({i \in 1..Len(placed) : placed[i] # None})
                                - Cardinality({i \in 1..Len(cl.tbl) : cl.tbl[i] # None}))]

\* LaneManager::new
LaneInit ==
    /\ lanes = <<>>
    /\ lastCommit = None
    /\ retLane = 0
    /\ heldAtRet = None
    /\ skipped = 0
    /\ visited = {}
    /\ referenced = {}
    /\ prevLanes = <<>>
    /\ lastParents = <<>>
    /\ reservedAt = [k \in {} |-> 0]
    /\ wasReserved = NoLane
    /\ prevFreed = NoLane
    /\ passDone = FALSE
    /\ simpleLanes = <<>>
    /\ simpleRet = 0
    /\ refCount = [k \in Commits |-> 0]

\* one assign_commit(c, ps) call and what it leaves behind
Call(c, ps) ==
    LET r == AssignCommit(lanes, c, ps) IN
    /\ lanes' = r.lanes
    /\ retLane' = r.lane
    /\ heldAtRet' = IF r.lane + 1 <= Len(lanes) THEN lanes[r.lane + 1] ELSE None
    /\ lastCommit' = c
    /\ skipped' = r.skipped

\* Oids are opaque to LaneManager (only compared with ==), so a traversal is
\* explored once per renaming: the identifiers a call uses for the first
\* time are the smallest unused ones, in the order <<c>> \o ps names them.
Known == visited \cup referenced

Canonical(c, ps) ==
    LET s == <<c>> \o ps IN
    \A i \in 1..Len(s) :
        s[i] \notin Known /\ (\A j \in 1..(i - 1) : s[j] # s[i])
            => s[i] = Cardinality(Known \cup {s[j] : j \in 1..(i - 1)}) + 1

\* any call at all: any commit (visited before or not), any parent list
\* (repeated entries included); the table is kept within MaxLanes slots
AnyParentLists == SeqsUpTo(1..AnyCommits, AnyParents)

AssignAny ==
    \E c \in 1..AnyCommits : \E ps \in AnyParentLists :
        /\ Call(c, ps)
        /\ Len(lanes') <= MaxLanes
        /\ UNCHANGED <<walkVars, passDone, simpleVars>>

\* what a traversal records about the call assign_commit(c, ps)
Book(c, ps) ==
    /\ visited' = visited \cup {c}
    /\ referenced' = referenced \cup Range(ps)
    /\ prevLanes' = lanes
    /\ lastParents' = ps
    /\ reservedAt' = [p \in Range(lanes') \ {None} |->
                         IF p \in DOMAIN reservedAt /\ p # c
                         THEN reservedAt[p] ELSE Position(lanes', p) - 1]
    /\ wasReserved' = IF c \in DOMAIN reservedAt THEN reservedAt[c] ELSE NoLane
    /\ prevFreed' = IF /\ lastCommit # None
                       /\ lastParents = <<>>
                       /\ heldAtRet = lastCommit
                       /\ retLane + 1 = Len(prevLanes)
                    THEN retLane ELSE NoLane

\* a call of a traversal that visits each commit once and after all the
\* commits naming it as a parent: neither c nor a parent was visited before.
\* A commit's parent list names each parent once.
WalkCall(c, ps) ==
    /\ ~passDone
    /\ Cardinality(Range(ps)) = Len(ps)
    /\ Canonical(c, ps)
    /\ Call(c, ps)
    /\ Book(c, ps)
    /\ UNCHANGED passDone

AssignWalk ==
    \E c \in Commits \ visited :
        \E ps \in SeqsUpTo(Commits \ (visited \cup {c}), MaxParents) :
            WalkCall(c, ps) /\ UNCHANGED simpleVars

\* the caller stops calling assign_commit: the pass is over
EndPass ==
    /\ ~passDone
    /\ passDone' = TRUE
    /\ UNCHANGED <<lanes, lastCommit, retLane, heldAtRet, skipped, walkVars, simpleVars>>

\* a call of a linear chain visited child-first: the first call is for any
\* commit, every later one for the single parent the previous call named,
\* and the chain ends with a commit that has no parent
ChainVisit ==
    \E c \in Commits \ visited :
        \E ps \in SeqsUpTo(Commits \ (visited \cup {c}), 1) :
            /\ visited = {} \/ (lastParents # <<>> /\ c = lastParents[1])
            /\ Call(c, ps)
            /\ Book(c, ps)
            /\ UNCHANGED <<passDone, simpleVars>>

\* ------------------------------------ LaneManager (entities/lane.rs)

\* SimpleAssignCommit with the `contains` test of the free-list variant: a
\* parent already in the table is not written again
SimpleAssignCommitDedup(ls, c, ps) ==
    LET found   == Position(ls, c)
        tbl     == IF found # 0 THEN ls ELSE Append(ls, None)
        slot    == IF found # 0 THEN found ELSE Len(ls) + 1
        cleared == [tbl EXCEPT ![slot] = None]
        first   == IF ps # <<>> /\ ~Contains(cleared, ps[1])
                   THEN [cleared EXCEPT ![slot] = ps[1]] ELSE cleared
        rest    == IF ps = <<>> THEN <<>>
                   ELSE SelectSeq(Tail(ps), LAMBDA p : ~Contains(first, p))
    IN  [lanes |-> first \o rest, lane |-> slot - 1]

\* entities/lane.rs lines 18-48: find the slot holding the commit or push a
\* free one, clear it, write the first parent into it and push every other
\* parent; lane is the 0-based return value
SimpleAssignCommit(ls, c, ps) ==
    LET found   == Position(ls, c)
        tbl     == IF found # 0 THEN ls ELSE Append(ls, None)
        slot    == IF found # 0 THEN found ELSE Len(ls) + 1
        cleared == [tbl EXCEPT ![slot] = None]
        first   == IF ps # <<>> THEN [cleared EXCEPT ![slot] = ps[1]] ELSE cleared
        rest    == IF ps = <<>> THEN <<>> ELSE Tail(ps)
    IN  [lanes |-> first \o rest, lane |-> slot - 1]

\* the same call made on the simple manager
SimpleCall(c, ps) ==
    LET r == SimpleAssignCommit(simpleLanes, c, ps) IN
    /\ simpleLanes' = r.lanes
    /\ simpleRet' = r.lane
    /\ refCount' = [x \in Commits |-> refCount[x] + (IF x \in Range(ps) THEN 1 ELSE 0)]

\* a call of a traversal made on both managers
AssignBoth ==
    \E c \in (1..BothCommits) \ visited :
        \E ps \in SeqsUpTo((1..BothCommits) \ (visited \cup {c}), BothParents) :
            WalkCall(c, ps) /\ SimpleCall(c, ps)

\* --------------------------------------------------- ColorManager (color.rs)

NoColor == -1

\* the empty HashMap
EmptyMap == [k \in {} |-> 0]

\* HashMap::insert
MapInsert(m, k, v) == [x \in DOMAIN m \cup {k} |-> IF x = k THEN v ELSE m[x]]

\* HashMap::remove
MapRemove(m, k) == [x \in DOMAIN m \ {k} |-> m[x]]

\* get_color that does not look the lane up in the map
GetColorNoLookup(cnt, m, n, lane) ==
    LET cnt1  == cnt + 1
        color == IF cnt1 < n THEN cnt1 ELSE 0
    IN  [count |-> color, map |-> MapInsert(m, lane, color), color |-> color]

\* get_color that wraps to 1 instead of 0
GetColorWrapOne(cnt, m, n, lane) ==
    LET cnt1  == cnt + 1
        wrap  == lane \notin DOMAIN m /\ ~(cnt1 < n)
        color == IF lane \in DOMAIN m THEN m[lane]
                 ELSE IF cnt1 < n THEN cnt1 ELSE 1
    IN  [count |-> IF wrap THEN 1 ELSE cnt1,
         map   |-> MapInsert(m, lane, color),
         color |-> color]

\* GetColor without the wrap of lines 25-28: a lane that is not in the map
\* is given the counter value
GetColorNoWrap(cnt, m, n, lane) ==
    LET cnt1  == cnt + 1
        color == IF lane \in DOMAIN m THEN m[lane] ELSE cnt1
    IN  [count |-> cnt1, map |-> MapInsert(m, lane, color), color |-> color]

\* GetColor without the increment of line 19
GetColorStuck(cnt, m, n, lane) ==
    LET color == IF lane \in DOMAIN m THEN m[lane]
                 ELSE IF cnt < n THEN cnt ELSE 0
    IN  [count |-> IF lane \notin DOMAIN m /\ ~(cnt < n) THEN 0 ELSE cnt,
         map   |-> MapInsert(m, lane, color),
         color |-> color]

\* lines 18-33: get_color(lane) on counter cnt, map m and a palette of n
\* colors; yields the new counter, the new map and the returned color
GetColor(cnt, m, n, lane) ==
    LET cnt1  == cnt + 1
        wrap  == lane \notin DOMAIN m /\ ~(cnt1 < n)
        color == IF lane \in DOMAIN m THEN m[lane]
                 ELSE IF cnt1 < n THEN cnt1 ELSE 0
    IN  [count |-> IF wrap THEN 0 ELSE cnt1,
         map   |-> MapInsert(m, lane, color),
         color |-> color]

\* RemoveLaneColor that clears the whole map
RemoveLaneColorAll(m, lane) == EmptyMap

\* lines 35-37
RemoveLaneColor(m, lane) == MapRemove(m, lane)

\* the colors a sequence of get_color calls returns, one call per lane of
\* seq, made on counter cnt, map m and a palette of n colors
RECURSIVE RunGets(_, _, _, _)
RunGets(cnt, m, n, seq) ==
    IF seq = <<>> THEN <<>>
    ELSE LET r == GetColor(cnt, m, n, Head(seq))
         IN  <<r.color>> \o RunGets(r.count, r.map, n, Tail(seq))

\* ColorManager::new(colors), for a palette of n colors
ColorNew(n) ==
    /\ count_color = 0
    /\ map_color = EmptyMap
    /\ colors = [i \in 1..n |-> 0]
    /\ colorOp = "none"
    /\ colorLane = 0
    /\ colorRet = NoColor
    /\ colorPrev = NoColor
    /\ given = EmptyMap
    /\ freshRets = <<>>
    /\ lastFirst = NoColor
    /\ mappedSince = FALSE
    /\ firstBefore = NoColor
    /\ mappedBetween = FALSE

\* a get_color(lane) call
GetColorCall(lane) ==
    LET r == GetColor(count_color, map_color, Len(colors), lane) IN
    /\ count_color < MaxCount      \* the usize counter is kept within MaxCount
    /\ count_color' = r.count
    /\ map_color' = r.map
    /\ colorOp' = "get"
    /\ colorLane' = lane
    /\ colorRet' = r.color
    /\ colorPrev' = IF lane \in DOMAIN given THEN given[lane] ELSE NoColor
    /\ given' = MapInsert(given, lane, r.color)
    \* freshRets grows while it has one entry per call made and the lane is new
    /\ freshRets' = IF Len(freshRets) = Cardinality(DOMAIN given) /\ lane \notin DOMAIN given
                       /\ (colorOp = "none" \/ freshRets # <<>>)
                    THEN Append(freshRets, r.color)
                    ELSE <<>>
    /\ IF lane \in DOMAIN map_color
       THEN /\ mappedSince' = TRUE
            /\ UNCHANGED <<lastFirst, firstBefore, mappedBetween>>
       ELSE /\ firstBefore' = lastFirst
            /\ mappedBetween' = mappedSince
            /\ lastFirst' = r.color
            /\ mappedSince' = FALSE
    /\ UNCHANGED colors

\* a remove_lane_color(lane) call
RemoveCall(lane) ==
    /\ map_color' = RemoveLaneColor(map_color, lane)
    /\ colorOp' = "remove"
    /\ colorLane' = lane
    /\ colorPrev' = IF lane \in DOMAIN given THEN given[lane] ELSE NoColor
    /\ given' = MapRemove(given, lane)
    /\ freshRets' = <<>>
    /\ UNCHANGED <<count_color, colors, colorRet, firstVars>>

ColorLanes == 0..(NumColorLanes - 1)

GetAny == \E lane \in ColorLanes : GetColorCall(lane) /\ UNCHANGED <<laneVars, histVars, edgeVars>>

RemoveAny == \E lane \in ColorLanes : RemoveCall(lane) /\ UNCHANGED <<laneVars, histVars, edgeVars>>

\* get_color for a lane that was not asked for before
GetFresh ==
    \E lane \in 0..(FreshLanes - 1) :
        /\ lane \notin DOMAIN given
        /\ GetColorCall(lane)
        /\ UNCHANGED <<laneVars, histVars, edgeVars>>

\* --------------------------------------- HistoryOidManager (history_oid.rs)

\* add_history that overwrites (insert for entry().push)
AddHistoryOverwrite(h, oid, e) == MapInsert(h, oid, <<e>>)

\* lines 28-33: entry(oid).or_insert_with(Vec::new).push(e)
AddHistory(h, oid, e) ==
    MapInsert(h, oid, Append(IF oid \in DOMAIN h THEN h[oid] ELSE <<>>, e))

\* lines 34-36: get(oid); an Option is a sequence of at most one value
HistoryGet(h, oid) == IF oid \in DOMAIN h THEN <<h[oid]>> ELSE <<>>

\* HistoryOidManager::new
HistNew ==
    /\ history_oid = EmptyMap
    /\ addLog = <<>>

HistOids == 1..NumHistOids
Entries == 1..NumEntries

AddAny ==
    \E oid \in HistOids : \E e \in Entries :
        /\ Len(addLog) < MaxAdds
        /\ history_oid' = AddHistory(history_oid, oid, e)
        /\ addLog' = Append(addLog, <<oid, e>>)
        /\ UNCHANGED <<laneVars, colorVars, edgeVars>>

\* ------------------------- edges (entities/edge.rs, garph.rs, bezier.rs)

\* A coordinate (Pixels, an f32) is modelled as an integer: the number of
\* some fixed power-of-two fraction of a pixel it amounts to.  f32 arithmetic
\* does not depend on that scale (exponent range aside), only on the width
\* of the significand.  Coordinates are even so that halving is exact.
Coord == {2 * i : i \in 0..MaxCoord}
Points == Coord \X Coord

\* significand width of an f32
F32Bits == 24

\* how many low bits a magnitude has beyond the significand
RECURSIVE DropBits(_)
DropBits(a) == IF a < 2^F32Bits THEN 0 ELSE 1 + DropBits(a \div 2)

\* the f32 nearest to v, ties to the even significand
F32Round(v) ==
    LET a  == IF v < 0 THEN -v ELSE v
        u  == 2^DropBits(a)
        q  == a \div u
        r  == a % u
        up == 2 * r > u \/ (2 * r = u /\ q % 2 = 1)
        m  == (IF up THEN q + 1 ELSE q) * u
    IN  IF v < 0 THEN -m ELSE m

\* f32 + f32 and f32 - f32
F32Add(a, b) == F32Round(a + b)
F32Sub(a, b) == F32Round(a - b)

\* f32 * 0.5: exact, only the exponent changes (the operand is even here)
F32Half(a) == a \div 2

\* further x coordinates: two f32 values whose difference has 25
\* significant bits (counted in 2^-20 pixel, the f32 nearest 25.6 and 76.8)
WideXs == {26843546, 80530640}
WidePoints == (Coord \cup WideXs) \X Coord

\* Point + Point
PointAdd(a, b) == <<a[1] + b[1], a[2] + b[2]>>

\* a path is the list of the commands given to its PathBuilder
NoPath == <<>>

\* move_to(a); line_to(b)
LinePath(a, b) == << <<"move_to", a>>, <<"line_to", b>> >>

\* move_to(a); cubic_bezier_to(c1, c2, b)
CubicPath(a, c1, c2, b) == << <<"move_to", a>>, <<"cubic_bezier_to", c1, c2, b>> >>

\* BezierEdge with the control points at the end points
BezierEdgeEnds(start, end) == CubicPath(start, start, end, end)

\* bezier.rs lines 5-37, the path create_bezier_edge builds
BezierEdge(start, end) ==
    LET dx == F32Half(F32Sub(end[1], start[1]))
        c1 == <<F32Add(start[1], dx), start[2]>>
        c2 == <<F32Sub(end[1], dx), end[2]>>
    IN  CubicPath(start, c1, c2, end)

\* bezier.rs lines 66-88, the path create_vertical_edge builds
VerticalEdge(start, end) == LinePath(start, end)

\* the canvas origins (bounds.origin) a paint callback may be given
Origins == {<<0, 0>>, <<2, 2>>}

\* EdgeManager::new
EdgeNew ==
    /\ edges = <<>>
    /\ painted = <<>>
    /\ edgeOp = "none"
    /\ edgeArg = 0
    /\ panicked = FALSE

\* EdgeManager::add(from, to)
AddEdge(from, to) ==
    /\ ~panicked
    /\ Len(edges) < MaxEdges
    /\ edges' = Append(edges, [from |-> from, to |-> to])
    /\ painted' = <<>>
    /\ edgeOp' = "add"
    /\ edgeArg' = 0
    /\ UNCHANGED panicked

EdgeAdd == \E from \in Points : \E to \in Points : AddEdge(from, to)

\* the same with the further x coordinates
EdgeAddWide == \E from \in WidePoints : \E to \in WidePoints : AddEdge(from, to)

\* garph.rs lines 100-110, the paint callback of Garph::render: one
\* move_to/line_to path per edge, painted if PathBuilder::build returns Ok.
\* Whether build returns Ok is decided by gpui: oks[i] is its outcome for
\* the path of edge i.
GarphRender ==
    \E origin \in Origins : \E oks \in [1..Len(edges) -> BOOLEAN] :
        /\ ~panicked
        /\ edges # <<>>
        /\ painted' = [i \in 1..Len(edges) |->
                          IF oks[i]
                          THEN LinePath(PointAdd(edges[i].from, origin),
                                        PointAdd(edges[i].to, origin))
                          ELSE NoPath]
        /\ edgeOp' = "garph"
        /\ edgeArg' = 0
        /\ UNCHANGED <<edges, panicked>>

\* edge.rs lines 39-63, EdgeManager::render: one move_to/line_to path per
\* edge, build().unwrap(); the paths are painted when every build succeeded
ManagerRender ==
    \E oks \in [1..Len(edges) -> BOOLEAN] :
        LET failed == {i \in 1..Len(edges) : ~oks[i]} IN
        /\ ~panicked
        /\ edges # <<>>
        /\ edgeOp' = "manager"
        /\ IF failed = {}
           THEN /\ painted' = [i \in 1..Len(edges) |->
                                  LinePath(edges[i].from, edges[i].to)]
                /\ edgeArg' = 0
                /\ UNCHANGED panicked
           ELSE /\ painted' = <<>>
                /\ edgeArg' = CHOOSE i \in failed : \A j \in failed : i <= j
                /\ panicked' = TRUE
        /\ UNCHANGED edges

\* a call of a path builder of bezier.rs for the end points of edge i:
\* the path is returned by build().unwrap()
BuilderCall(i, op, path, ok) ==
    /\ ~panicked
    /\ edgeOp' = op
    /\ edgeArg' = i
    /\ painted' = IF ok THEN <<path>> ELSE <<>>
    /\ panicked' = ~ok
    /\ UNCHANGED edges

\* create_vertical_edge(edges[i].from, edges[i].to, w)
CreateVertical ==
    \E i \in 1..Len(edges) : \E ok \in BOOLEAN :
        BuilderCall(i, "vertical", VerticalEdge(edges[i].from, edges[i].to), ok)

\* create_bezier_edge(edges[i].from, edges[i].to, w)
CreateBezier ==
    \E i \in 1..Len(edges) : \E ok \in BOOLEAN :
        BuilderCall(i, "bezier", BezierEdge(edges[i].from, edges[i].to), ok)

EdgeNext == EdgeAdd \/ GarphRender \/ ManagerRender \/ CreateVertical \/ CreateBezier

\* ----------------------------------------------------------- specifications

Init == LaneInit /\ ColorNew(MaxPalette) /\ HistNew /\ EdgeNew

Next == (AssignWalk \/ EndPass) /\ UNCHANGED <<colorVars, histVars, edgeVars>>

\* traversals in which every commit is visited once, children first
Spec == Init /\ [][Next]_vars

\* the same traversals, made on the free-list and on the simple manager
SpecBoth == Init /\ [][AssignBoth /\ UNCHANGED <<colorVars, histVars, edgeVars>>]_vars

\* arbitrary sequences of assign_commit calls
SpecAny == Init /\ [][AssignAny /\ UNCHANGED <<colorVars, histVars, edgeVars>>]_vars

\* linear chains
SpecChain == Init /\ [][ChainVisit /\ UNCHANGED <<colorVars, histVars, edgeVars>>]_vars

ColorInit == LaneInit /\ HistNew /\ EdgeNew /\ \E n \in 2..MaxPalette : ColorNew(n)

\* arbitrary sequences of get_color and remove_lane_color calls
SpecColor == ColorInit /\ [][GetAny \/ RemoveAny]_vars

\* the same for a manager made with any non-empty palette
PaletteInit == LaneInit /\ HistNew /\ EdgeNew /\ \E n \in 1..MaxPalette : ColorNew(n)

SpecPalette == PaletteInit /\ [][GetAny \/ RemoveAny]_vars

\* sequences of get_color calls only: remove_lane_color is never called
SpecGets == ColorInit /\ [][GetAny]_vars

\* a new manager asked for one new lane after the other
SpecFresh == ColorInit /\ [][GetFresh]_vars

\* arbitrary sequences of add_history calls
SpecHistory == Init /\ [][AddAny]_vars

\* edges added, rendered and built
SpecEdge == Init /\ [][EdgeNext /\ UNCHANGED <<laneVars, colorVars, histVars>>]_vars

\* edges between any two of the points, built by create_bezier_edge
SpecBezier ==
    Init /\ [][(EdgeAddWide \/ CreateBezier) /\ UNCHANGED <<laneVars, colorVars, histVars>>]_vars

\* ------------------------------------------------------------ properties

Occupied(ls) == {i \in 1..Len(ls) : ls[i] # None}

Pending(ls) == Range(ls) \ {None}

\* C1: after every assign_commit call the lane table is empty or its last
\* slot is occupied (its length is the highest occupied index + 1, or 0).
C1_Trimmed ==
    /\ lanes = <<>> \/ lanes[Len(lanes)] # None
    /\ Len(lanes) = IF Occupied(lanes) = {} THEN 0
                    ELSE CHOOSE i \in Occupied(lanes) : \A j \in Occupied(lanes) : j <= i

\* a pending commit in the last slot was visited and its slot was trimmed
\* away while other lanes stay
C1_Witness ==
    /\ lastCommit # None
    /\ heldAtRet = lastCommit
    /\ lanes # <<>>
    /\ Len(lanes) <= retLane

\* C2: after any sequence of assign_commit calls from an empty table no
\* commit identifier is held by two slots at once.
C2_NoDuplicateSlot ==
    \A i, j \in Occupied(lanes) : lanes[i] = lanes[j] => i = j

\* a call named a parent that was already pending (diamond, or listed
\* twice) and the table holds it
C2_Witness ==
    /\ skipped > 0
    /\ Cardinality(Occupied(lanes)) >= 2

\* C3 (as claimed): when parents is non-empty and parents[0] was not pending,
\* the slot of the returned lane holds parents[0] after the call.
C3_FirstParentKeepsLane ==
    (lastCommit # None /\ lastParents # <<>> /\ ~Contains(prevLanes, lastParents[1]))
        => /\ retLane + 1 <= Len(lanes)
           /\ lanes[retLane + 1] = lastParents[1]

\* C4: in a traversal, the identifiers held in slots are exactly the
\* commits named as a parent by a visited commit and not yet visited.
C4_PendingExactly == Pending(lanes) = referenced \ visited

\* some referenced commit has been visited and another is still pending
C4_Witness ==
    /\ referenced \cap visited # {}
    /\ referenced \ visited # {}
    /\ skipped > 0

\* C5 (as claimed): the table's length is at most the number of occupied
\* slots plus one.
C5_LenAtMostPendingPlusOne == Len(lanes) <= Cardinality(Pending(lanes)) + 1

\* C5 (amended): the table's length is at most the number of distinct
\* identifiers named as a parent so far, pending or already visited.
C5_LenAtMostReferenced == Len(lanes) <= Cardinality(referenced)

\* middle lanes of a merge terminated first: two interior free slots, and
\* the bound is attained
C5_Witness ==
    /\ Len(lanes) = Cardinality(referenced)
    /\ Len(lanes) >= Cardinality(Pending(lanes)) + 2

\* C8: the lane returned for a commit is never a slot that held a different
\* commit when the call was entered.
C8_LaneNotTaken ==
    lastCommit # None => heldAtRet \in {None, lastCommit}

\* a commit that was not pending got a lane while other commits are pending
C8_Witness ==
    /\ lastCommit # None
    /\ heldAtRet = None
    /\ retLane > 0
    /\ Pending(lanes) # {}

\* C10: along a linear chain from an empty table every call returns lane 0
\* and the table never holds more than one slot.
C10_ChainLaneZero ==
    lastCommit # None => retLane = 0 /\ Len(lanes) <= 1

\* a chain of at least three commits has been walked to its root
C10_Witness ==
    /\ Cardinality(visited) >= 3
    /\ lastParents = <<>>
    /\ retLane = 0
    /\ lanes = <<>>

\* C6: two get_color calls for the same lane with no remove_lane_color of
\* that lane in between return the same color.
C6_SameColorWhileMapped ==
    (colorOp = "get" /\ colorPrev # NoColor) => colorRet = colorPrev

\* a lane is asked for again after other lanes moved the counter past the
\* palette size
C6_Witness ==
    /\ colorOp = "get"
    /\ colorPrev # NoColor
    /\ count_color > Len(colors)
    /\ Cardinality(DOMAIN map_color) >= 2

\* C7 (as claimed): get_color never returns 0, and a new manager with a
\* palette of 2 asked for distinct lanes returns 1,2,1,2,1.
C7_NeverZero ==
    /\ colorOp = "get" => colorRet # 0
    /\ Len(colors) = 2 =>
           \A i \in 1..Len(freshRets) : i <= 5 => freshRets[i] = <<1, 2, 1, 2, 1>>[i]

\* C7 (amended): a new manager asked for distinct lanes returns, for the
\* i-th of them, i modulo the palette size: 0 whenever the counter reaches
\* the palette size, so 1,0,1,0,1 for a palette of 2.
C7_CycleThroughZero ==
    /\ \A i \in 1..Len(freshRets) : freshRets[i] = i % Len(colors)
    /\ Len(colors) = 2 =>
           \A i \in 1..Len(freshRets) : i <= 5 => freshRets[i] = <<1, 0, 1, 0, 1>>[i]

\* five distinct lanes were asked for on a new manager with a palette of 2
C7_Witness ==
    /\ Len(colors) = 2
    /\ Len(freshRets) = 5
    /\ Cardinality(DOMAIN map_color) = 5

\* the entries add_history was called with for oid, in call order
RECURSIVE AddedFor(_, _)
AddedFor(log, oid) ==
    IF log = <<>> THEN <<>>
    ELSE IF Head(log)[1] = oid
         THEN <<Head(log)[2]>> \o AddedFor(Tail(log), oid)
         ELSE AddedFor(Tail(log), oid)

\* C9: get(oid) returns every entry added for oid, in insertion order, and
\* None for an oid that was never added; adding for one oid changes no other.
C9_AppendInOrder ==
    \A oid \in HistOids :
        HistoryGet(history_oid, oid) =
            IF \E i \in 1..Len(addLog) : addLog[i][1] = oid
            THEN <<AddedFor(addLog, oid)>>
            ELSE <<>>

\* an oid holds two different entries, an add for another oid came between
\* them
C9_Witness ==
    \E i, j, k \in 1..Len(addLog) :
        /\ i < j /\ j < k
        /\ addLog[i][1] = addLog[k][1]
        /\ addLog[j][1] # addLog[i][1]
        /\ addLog[i][2] # addLog[k][2]
        /\ Len(history_oid[addLog[i][1]]) >= 2

\* ------------------------------------------------- properties, C11 - C20

\* the last call visited a merge commit with two parents, neither pending,
\* on a table that had no free slot
C11_MergeCase ==
    /\ lastCommit # None
    /\ Len(lastParents) = 2
    /\ ~Contains(prevLanes, lastParents[1])
    /\ ~Contains(prevLanes, lastParents[2])
    /\ ~Contains(prevLanes, None)

\* C11: after a merge commit with parents [P1, P2], neither pending, is
\* given lane L on a table with no other free slot, slot L holds P1 and P2
\* is in one newly appended slot (lanes 0 and 1 from the empty table); and a
\* commit that was reserved a lane is returned that lane when it is visited.
C11_MergeFirstParentKeepsLane ==
    /\ C11_MergeCase =>
          LET base == IF heldAtRet = lastCommit
                      THEN Len(prevLanes) ELSE Len(prevLanes) + 1
          IN  /\ lanes[retLane + 1] = lastParents[1]
              /\ Len(lanes) = base + 1
              /\ lanes[base + 1] = lastParents[2]
              /\ reservedAt[lastParents[1]] = retLane
              /\ reservedAt[lastParents[2]] = base
              /\ prevLanes = <<>> => retLane = 0 /\ base = 1
    /\ wasReserved # NoLane => retLane = wasReserved

\* a merge commit pending in lane 1 or higher of a full table is visited
C11_Witness == C11_MergeCase /\ retLane >= 1 /\ heldAtRet = lastCommit

\* C12 as stated: when the call before the last one visited a parentless
\* commit held in the trailing slot k and the last call was for a commit
\* that was not pending, the table it found ended before k and it returned k.
C12_RootReusesFreedIndex ==
    prevFreed # NoLane /\ heldAtRet # lastCommit
        => Len(prevLanes) <= prevFreed /\ retLane = prevFreed

\* C12, amended: in that case the table the last call found ended before k
\* and the call returned the length of that table, which is at most k.
C12_RootTakesTrimmedLength ==
    prevFreed # NoLane /\ heldAtRet # lastCommit
        => /\ Len(prevLanes) <= prevFreed
           /\ retLane = Len(prevLanes)
           /\ retLane <= prevFreed

\* a root is given the index 1 or higher that the call before had freed
C12_Witness ==
    prevFreed # NoLane /\ heldAtRet # lastCommit /\ retLane = prevFreed /\ prevFreed >= 1

\* C13: once the pass is over, an identifier that was named as a parent and
\* never supplied to assign_commit (a dangling parent) holds no slot.
C13_DanglingHoldsNoSlot ==
    passDone => \A p \in referenced \ visited : ~Contains(lanes, p)

\* the parents of the last call that were not pending, in list order
C18_New == SelectSeq(lastParents, LAMBDA p : ~Contains(prevLanes, p))

\* the slots that were free once the commit's own slot was cleared (1-based)
C18_Free == {i \in 1..Len(prevLanes) : prevLanes[i] = None} \cup {retLane + 1}

\* the length of the table at that moment
C18_Base == IF retLane + 1 > Len(prevLanes) THEN Len(prevLanes) + 1 ELSE Len(prevLanes)

\* the j-th highest element of a set of integers
NthHighest(S, j) == CHOOSE x \in S : Cardinality({y \in S : y > x}) = j - 1

\* C18: the j-th parent that was not pending is written into the j-th
\* highest slot that was free; it is appended (in order) only when all free
\* slots are used up, so a table that grew by appending has no free slot.
C18_HighestFreeThenAppend ==
    lastCommit # None =>
        /\ \A j \in 1..Len(C18_New) :
              Position(lanes, C18_New[j]) =
                  IF j <= Cardinality(C18_Free) THEN NthHighest(C18_Free, j)
                  ELSE C18_Base + (j - Cardinality(C18_Free))
        /\ Len(lanes) > C18_Base => ~Contains(lanes, None)

\* two parents were written into two free slots, the higher one first
C18_Witness ==
    /\ lastCommit # None
    /\ Cardinality(C18_Free) >= 2
    /\ Len(C18_New) >= 2
    /\ Position(lanes, C18_New[1]) > Position(lanes, C18_New[2])

\* C19: after every call of a traversal made on both managers, the
\* free-list table is no longer than the simple manager's table.
C19_FreeListNoLonger == Len(lanes) <= Len(simpleLanes)

\* the free-list table is non-empty and strictly shorter
C19_Witness == lanes # <<>> /\ Len(lanes) < Len(simpleLanes)

\* how many slots of the table hold x
Holds(ls, x) == Cardinality({i \in 1..Len(ls) : ls[i] = x})

\* C20: the simple manager holds an identifier in one slot per visited
\* commit that named it as a parent, and visiting it clears one of them (the
\* first): a commit named by two visited commits is held twice, and once
\* visited it is still held by a slot.
C20_SimpleKeepsDuplicates ==
    \A x \in Commits :
        Holds(simpleLanes, x) =
            refCount[x] - (IF x \in visited /\ refCount[x] >= 1 THEN 1 ELSE 0)

\* the commit just visited had been held twice; its first slot is now
\* free or re-used and a later slot still holds it
C20_Witness ==
    /\ lastCommit # None
    /\ refCount[lastCommit] = 2
    /\ simpleLanes[simpleRet + 1] # lastCommit
    /\ \E i \in (simpleRet + 2)..Len(simpleLanes) : simpleLanes[i] = lastCommit

\* C14: a remove_lane_color(l) call leaves the counter and the mapping of
\* every lane other than l as they were, and removes l's mapping, so
\* get_color for any other mapped lane returns the same color before and
\* after the removal.
C14_RemoveOnlyThatLane ==
    [][colorOp' = "remove" =>
          /\ count_color' = count_color
          /\ DOMAIN map_color' = DOMAIN map_color \ {colorLane'}
          /\ \A l \in DOMAIN map_color' :
                /\ map_color'[l] = map_color[l]
                /\ GetColor(count_color', map_color', Len(colors'), l).color
                       = GetColor(count_color, map_color, Len(colors), l).color
      ]_vars

\* a mapped lane was removed while two other lanes stay mapped
C14_Witness ==
    /\ colorOp = "remove"
    /\ colorPrev # NoColor
    /\ Cardinality(DOMAIN map_color) >= 2
    /\ count_color > 0

\* the last call was a first request and not the first one of all
C17_SecondFirst == colorOp = "get" /\ colorPrev = NoColor /\ firstBefore # NoColor

\* C17 as stated: the color given on a first request is the cyclic successor
\* in the palette of the color given on the first request before it,
\* whatever calls were made in between, and so differs from it.
C17_RoundRobinAlways ==
    C17_SecondFirst =>
        /\ colorRet = (firstBefore + 1) % Len(colors)
        /\ colorRet # firstBefore

\* C17, amended: this holds when no get_color for a mapped lane was made
\* between the two first requests.
C17_RoundRobinBackToBack ==
    C17_SecondFirst /\ ~mappedBetween =>
        /\ colorRet = (firstBefore + 1) % Len(colors)
        /\ colorRet # firstBefore

\* two first requests with no get_color in between, the second one
\* wrapping to color 0 from the last color of the palette
C17_Witness ==
    /\ C17_SecondFirst
    /\ ~mappedBetween
    /\ colorRet = 0
    /\ firstBefore = Len(colors) - 1

IsStraight(path) == Len(path) = 2 /\ path[2][1] = "line_to"

IsCubic(path) == Len(path) = 2 /\ path[2][1] = "cubic_bezier_to"

ZeroLength(e) == e.from = e.to

\* C15: every path a render paints for an edge is a straight segment when
\* the edge's two points have the same x and a cubic curve when they differ.
C15_StraightOrCubicByLane ==
    edgeOp \in {"garph", "manager"} =>
        \A i \in 1..Len(painted) :
            painted[i] # NoPath =>
                IF edges[i].from[1] = edges[i].to[1]
                THEN IsStraight(painted[i])
                ELSE IsCubic(painted[i])

\* C16: no panic comes from an edge whose two points are equal; a builder
\* called for such an edge returns a straight segment and a render paints
\* one for it, also when the path build fails.
C16_ZeroLengthRecovers ==
    /\ panicked => ~ZeroLength(edges[edgeArg])
    /\ edgeOp \in {"vertical", "bezier"} /\ ZeroLength(edges[edgeArg])
          => painted # <<>> /\ IsStraight(painted[1])
    /\ edgeOp \in {"garph", "manager"}
          => \A i \in 1..Len(edges) :
                ZeroLength(edges[i]) => painted # <<>> /\ IsStraight(painted[i])

\* ------------------------------------------------- properties, C21 - C25

\* the sequences of lanes get_color may be called for next
RevisitSeqs == SeqsUpTo(ColorLanes, RevisitLen)

\* made from the current state, the get_color calls of seq ask for some lane
\* twice, with a call for another lane in between, and the lane is returned
\* two different colors
RevisitChanges(seq) ==
    LET rets == RunGets(count_color, map_color, Len(colors), seq) IN
    \E i \in 1..Len(seq) : \E j \in (i + 1)..Len(seq) :
        /\ seq[i] = seq[j]
        /\ \E k \in (i + 1)..(j - 1) : seq[k] # seq[i]
        /\ rets[i] # rets[j]

\* C21 as stated: some sequence of get_color calls, with no
\* remove_lane_color, returns one color for a lane, is called for other
\* lanes, and returns a different color for the same lane later.
C21_RevisitCanChangeColor == \E seq \in RevisitSeqs : RevisitChanges(seq)

\* C21, amended: there is no such sequence; whatever state the manager is
\* in, get_color calls for other lanes do not change the color a later
\* get_color returns for a lane.
C21_RevisitKeepsColor == \A seq \in RevisitSeqs : ~RevisitChanges(seq)

\* a lane is asked for again after calls for other lanes that made the
\* counter wrap, and is returned the color it had
C21_Witness ==
    /\ colorOp = "get"
    /\ colorPrev # NoColor
    /\ colorRet = colorPrev
    /\ lastFirst = 0
    /\ colorRet # 0
    /\ mappedSince

\* C22: every identifier that was named as a parent and is not yet visited
\* is still in the slot it was written into, and the call that visits a
\* commit returns the lane that commit was written into.
C22_PendingLaneNeverMoves ==
    /\ DOMAIN reservedAt = referenced \ visited
    /\ \A p \in DOMAIN reservedAt :
          /\ reservedAt[p] + 1 <= Len(lanes)
          /\ lanes[reservedAt[p] + 1] = p
    /\ wasReserved # NoLane => retLane = wasReserved /\ heldAtRet = lastCommit

\* a commit is visited in the lane it was reserved, 1 or higher, although a
\* lower slot had become free in the meantime
C22_Witness ==
    /\ wasReserved >= 1
    /\ retLane = wasReserved
    /\ \E i \in 1..wasReserved : prevLanes[i] = None

\* C23: when the pass is over and every identifier named as a parent was
\* visited, the lane table is empty.
C23_EmptyAfterClosedPass ==
    passDone /\ referenced \subseteq visited => lanes = <<>>

\* a pass over four or more commits with a merge has ended, every named
\* parent visited
C23_Witness ==
    /\ passDone
    /\ referenced \subseteq visited
    /\ Cardinality(visited) >= 4
    /\ Cardinality(referenced) >= 3

\* C24: with a non-empty palette, the value the last get_color returned and
\* every value in the lane-to-color map are indices of the palette.
C24_ValidPaletteIndex ==
    /\ colorRet # NoColor => 0 <= colorRet /\ colorRet < Len(colors)
    /\ \A l \in DOMAIN map_color :
          0 <= map_color[l] /\ map_color[l] < Len(colors)

\* a palette of one color, two lanes mapped and the counter beyond the
\* palette length
C24_Witness ==
    /\ colorOp = "get"
    /\ Len(colors) = 1
    /\ colorRet = 0
    /\ Cardinality(DOMAIN map_color) >= 2
    /\ count_color >= 2

\* create_bezier_edge has returned a path
C25_Built == edgeOp = "bezier" /\ painted # <<>>

\* the two control points of that path
C25_C1 == painted[1][2][2]
C25_C2 == painted[1][2][3]

\* v is an f32: it has no more than F32Bits significant bits
F32Exact(v) == F32Round(v) = v

\* C25 as stated: the two control points of the path create_bezier_edge
\* returns have the same x, the first has the y of the start and the second
\* the y of the end.
C25_ControlsShareX ==
    C25_Built =>
        /\ C25_C1[1] = C25_C2[1]
        /\ C25_C1[2] = edges[edgeArg].from[2]
        /\ C25_C2[2] = edges[edgeArg].to[2]

\* C25, amended: with dx the f32 half of the f32 difference end.x - start.x,
\* the control points are (start.x + dx, start.y) and (end.x - dx, end.y) in
\* f32 arithmetic; when the difference end.x - start.x is itself an f32,
\* both have the same x, the f32 nearest the midpoint.
C25_ControlsHalfDelta ==
    C25_Built =>
        LET start == edges[edgeArg].from
            end   == edges[edgeArg].to
            dx    == F32Half(F32Sub(end[1], start[1]))
        IN  /\ painted[1][1] = <<"move_to", start>>
            /\ painted[1][2][4] = end
            /\ C25_C1 = <<F32Add(start[1], dx), start[2]>>
            /\ C25_C2 = <<F32Sub(end[1], dx), end[2]>>
            /\ F32Exact(end[1] - start[1]) =>
                  /\ C25_C1[1] = C25_C2[1]
                  /\ C25_C1[1] = F32Round((start[1] + end[1]) \div 2)

\* a curve between two points of different x and y whose x difference is an
\* f32: the control points share the x
C25_Witness ==
    /\ C25_Built
    /\ edges[edgeArg].from[1] # edges[edgeArg].to[1]
    /\ edges[edgeArg].from[2] # edges[edgeArg].to[2]
    /\ F32Exact(edges[edgeArg].to[1] - edges[edgeArg].from[1])
    /\ edges[edgeArg].to[1] \in WideXs
    /\ C25_C1[1] = C25_C2[1]

====
